---- MODULE Spec2Model ----
(***************************************************************************)
(* Model of the resumable upload client of GroundLinkMonitorClient         *)
(* (src/MainClient.py): ResumableUploader.connect / disconnect /           *)
(* _send_file_region / upload and the ImageClient wrappers, run against a  *)
(* nondeterministic peer, transport and file system; and of                *)
(* remove_empty_dirs (src/cleaner.py).                                     *)
(*                                                                         *)
(* One upload() call is a sequential coroutine; pc is the await it is      *)
(* suspended in (or the statement it is about to run).  An action is the   *)
(* code that runs from one suspension to the next.  While the coroutine is *)
(* suspended the event loop flushes the transport (TransportFlush) and the *)
(* file system changes (FileShrink, FileRemove).  An await that has no     *)
(* timeout is left only when what it waits for has happened.               *)
(***************************************************************************)
EXTENDS Integers, Sequences, FiniteSets, TLC

\* ------------------------------------------------------------- bounds
MaxFileSize == 3        \* source files of 0..MaxFileSize bytes
MaxRetries  == 2        \* max_retries drawn from 0..MaxRetries (0 = unlimited)
MaxAttempts == 2        \* cap on the attempt counter when max_retries = 0
MaxCalls    == 2        \* upload() calls begun on one connection
MaxOpen     == 2        \* cap on connections opened and never closed (__aenter__)
chunk_size        == 2  \* ClientConfig.chunk_size, scaled to bytes of the model
write_buffer_high == 2  \* ClientConfig.write_buffer_high, scaled
write_buffer_low  == 1  \* ClientConfig.write_buffer_low, scaled
MaxDirs           == 3  \* directories below the cleaner's root
MaxCleanCalls     == 2  \* calls of remove_empty_dirs in one run
MaxNoList         == 1  \* directories of the tree that cannot be listed
HeaderLen         == 1  \* bytes of a packed header at most, on the model's scale

Min(a, b) == IF a < b THEN a ELSE b

\* ------------------------------------------------------------- state
VARIABLES
    max_retries,   \* ClientConfig.max_retries
    file_buffering,\* ClientConfig.file_buffering, scaled
    fileData,      \* the bytes of the source file as they are on disk now
    fileMode,      \* "ok" | "unreadable" (exists, open() raises) | "missing"
    conn,          \* self._conn is not None
    openCount,     \* connections the session opened and has not called close() on
    connHdrs,      \* headers written on the current connection
    wbuf,          \* transport.get_write_buffer_size() of the current connection
    paused,        \* the protocol of the current connection is paused (drain waits)
    pc,            \* position of the upload() coroutine
    file_size,     \* local of upload(): os.path.getsize(path) at the start
    attempt,       \* local of upload()
    offset,        \* local of upload(): the offset read on this attempt, -1 before
    remaining,     \* local of upload()
    sent_total,    \* local of _send_file_region
    fpos,          \* position of the open file object
    fbuf,          \* bytes the open file object has read ahead and not yet returned
    result,        \* "none" while running, "True" / "False" returned
    retAt,         \* the return statement taken ("" while running)
    wire,          \* file bytes written on this connection since the last header
    response,      \* the 2 status bytes read on this attempt ("" before)
    lastFault,     \* raise site of the last exception caught at line 262
    nFaults,       \* exceptions caught at line 262 in this call
    nConnects,     \* connect() calls made by this upload() call
    nHeaders,      \* headers written by this upload() call
    nSleeps,       \* asyncio.sleep(retry_delay_sec) calls of this upload() call
    totalSent,     \* file bytes written by this upload() call, all connections
    startConn,     \* self._conn was set when this upload() call began
    offsetFaults,  \* exceptions of this call raised by the read of the offset
    fileMtime,     \* st_mtime_ns of the source file (a stamp, new at each change)
    upload_id,     \* local of upload(): compute_upload_id(...) at the start
    hdrLog,        \* the headers written by this upload() call
    events         \* what the session did on the current connection, in order

\* cleaner.py: remove_empty_dirs(root, dry_run, remove_root)
VARIABLES
    cParent,       \* the directory tree under root: the parent of each directory
    cFiles,        \* the directories that hold a regular file
    cDirs,         \* the directories that exist now
    cNoList,       \* the directories whose listing is refused (no read permission)
    dry_run,       \* argument of the running call
    remove_root,   \* argument of the running call
    cQueue,        \* what os.walk(root, topdown=False) has yet to yield
    removed,       \* local counter of the running call
    errors,        \* local counter of the running call
    errSites,      \* the calls that raised inside the try of the running call
    cpc,           \* "idle", "walk", "returned" or "raised"
    cStart,        \* the directories that existed when the running call began
    dryLast,       \* what the last dry run returned, and on which tree
    nCleanCalls    \* calls of remove_empty_dirs so far

cleanVars == <<cParent, cFiles, cDirs, cNoList, dry_run, remove_root, cQueue,
               removed, errors, errSites, cpc, cStart, dryLast, nCleanCalls>>

uploadVars == <<max_retries, file_buffering, fileData, fileMode, conn, openCount,
          connHdrs, wbuf, paused, pc, file_size, attempt, offset, remaining,
          sent_total, fpos, fbuf, result, retAt, wire, response, lastFault,
          nFaults, nConnects, nHeaders, nSleeps, totalSent, startConn,
          offsetFaults, fileMtime, upload_id, hdrLog, events>>

vars == <<uploadVars, cleanVars>>

cfgVars  == <<max_retries, file_buffering>>
fileVars == <<fileData, fileMode, fileMtime>>
connVars == <<conn, openCount, connHdrs, wbuf, paused>>
hdrVars  == <<upload_id, hdrLog>>
histVars == <<nConnects, nHeaders, nSleeps, totalSent, startConn, offsetFaults>>
\* the locals of one pass of the loop of upload() and of _send_file_region
passVars == <<offset, remaining, sent_total, fpos, fbuf, wire, response>>

NoFault == [site |-> "", exc |-> ""]
NoId == [client_name |-> "", filename |-> "", file_size |-> 0, mtime_ns |-> 0]
client_name == "R2.0S"     \* ClientConfig.client_name of the session
filename    == "image.jpg" \* os.path.basename(path)
FileModes == {"ok", "unreadable", "missing"}
\* byte i of the source file is the value i: every position is distinguishable
FileOfSize(n) == [i \in 1..n |-> i]

\* the buffer sizes of the file object a session may be configured with: that
\* of one chunk (the defaults of ClientConfig: both 4 MiB), and one larger
\* than any file (a small chunk_size under the default file_buffering)
FileBufferings == {chunk_size, MaxFileSize + 1}

\* os.stat(path).st_mtime_ns: the source file is only ever truncated, so each
\* content is a later version than every longer one; the stamp is the version
st_mtime_ns(data) == MaxFileSize - Len(data)

UploadInit ==
    /\ max_retries \in 0..MaxRetries
    /\ file_buffering \in FileBufferings
    /\ \E n \in 0..MaxFileSize : fileData = FileOfSize(n)
    /\ fileMode \in FileModes
    /\ conn = FALSE
    /\ openCount = 0
    /\ connHdrs = 0
    /\ wbuf = 0
    /\ paused = FALSE
    /\ pc = "idle"
    /\ file_size = 0
    /\ attempt = 0
    /\ offset = -1
    /\ remaining = 0
    /\ sent_total = 0
    /\ fpos = 0
    /\ fbuf = <<>>
    /\ result = "none"
    /\ retAt = ""
    /\ wire = <<>>
    /\ response = ""
    /\ lastFault = NoFault
    /\ nFaults = 0
    /\ nConnects = 0
    /\ nHeaders = 0
    /\ nSleeps = 0
    /\ totalSent = 0
    /\ startConn = FALSE
    /\ offsetFaults = 0
    /\ fileMtime = st_mtime_ns(fileData)
    /\ upload_id = NoId
    /\ hdrLog = {}
    /\ events = <<>>

root == 0

NoDryRun == [count |-> -1, errors |-> 0, tree |-> {}, remove_root |-> FALSE]

\* remove_empty_dirs has not been called
CleanIdle ==
    /\ cParent = <<>>
    /\ cFiles = {}
    /\ cDirs = {root}
    /\ cNoList = {}
    /\ dry_run = TRUE
    /\ remove_root = FALSE
    /\ cQueue = <<>>
    /\ removed = 0
    /\ errors = 0
    /\ errSites = {}
    /\ cpc = "idle"
    /\ cStart = {}
    /\ dryLast = NoDryRun
    /\ nCleanCalls = 0

Init == UploadInit /\ CleanIdle

\* --------------------------------------------------- pure helpers
\* Python's exception classes that the modelled code raises, with their bases
\* (asyncio.TimeoutError is the builtin TimeoutError, an OSError, from 3.11 on).
Bases(exc) ==
    CASE exc = "ConnectionResetError" -> {"ConnectionResetError", "ConnectionError", "OSError"}
      [] exc = "BrokenPipeError"      -> {"BrokenPipeError", "ConnectionError", "OSError"}
      [] exc = "ConnectionError"      -> {"ConnectionError", "OSError"}
      [] exc = "FileNotFoundError"    -> {"FileNotFoundError", "OSError"}
      [] exc = "PermissionError"      -> {"PermissionError", "OSError"}
      [] exc = "IncompleteReadError"  -> {"IncompleteReadError", "EOFError"}
      [] exc = "TimeoutError"         -> {"TimeoutError", "OSError"}
      [] exc = "ConnectionRefusedError" -> {"ConnectionRefusedError", "ConnectionError", "OSError"}
      [] exc = "ConnectionAbortedError" -> {"ConnectionAbortedError", "ConnectionError", "OSError"}
      [] exc = "IsADirectoryError"    -> {"IsADirectoryError", "OSError"}
      [] exc = "OSError"              -> {"OSError"}
      [] OTHER                        -> {exc}

\* the tuple of the except clause of upload(), line 262
ExceptTuple ==
    {"IncompleteReadError", "ConnectionResetError", "BrokenPipeError",
     "OSError", "ConnectionError", "TimeoutError"}

Caught(exc) == Bases(exc) \cap ExceptTuple # {}

\* lines 117-122: the upload id is the SHA-256 of the seed
\* "client_name|filename|file_size|mtime_ns"; the model keeps the seed's fields
compute_upload_id(cn, fn, size, mtime) ==
    [client_name |-> cn, filename |-> fn, file_size |-> size, mtime_ns |-> mtime]

\* lines 68-75: the header is the four fields, packed in this order
build_header(cn, fn, size, uid) ==
    [client_name |-> cn, file_size |-> size, filename |-> fn, upload_id |-> uid]

\* line 224: the header upload() writes on each attempt, from its locals
HeaderToSend_Recomputed ==
    build_header(client_name, filename, Len(fileData),
                 compute_upload_id(client_name, filename, Len(fileData), fileMtime))
HeaderToSend == build_header(client_name, filename, file_size, upload_id)

\* line 232: if offset > file_size: raise ConnectionError
OffsetValid(off, size) == ~(off > size)

\* line 243: if sent != remaining: raise ConnectionError
SentOk(sent, rem) == sent = rem

\* line 266: if self.config.max_retries and attempt >= self.config.max_retries
BudgetExhausted(att) == max_retries # 0 /\ att >= max_retries

\* lines 253-260: the verdict for the 2 status bytes
StatusResult_ErIsOk(r) == IF r = "XX" THEN "False" ELSE "True"
StatusResult_UnexpectedIsOk(r) == IF r = "ER" THEN "False" ELSE "True"
StatusResult(r) == IF r = "OK" THEN "True" ELSE "False"

\* line 239: f.seek(offset)
SeekPos_Start(off) == 0
SeekPos(off) == off

\* lines 184/193: min(self.config.chunk_size, size - sent_total)
ReadSize_All(size, sent) == size - sent
ReadSize(size, sent) == Min(chunk_size, size - sent)

\* os.read on the descriptor of the file: up to n bytes at position pos of the
\* file as it is on disk now
RawRead(pos, n) ==
    IF pos >= Len(fileData) \/ n <= 0 THEN <<>>
    ELSE SubSeq(fileData, pos + 1, Min(pos + n, Len(fileData)))

\* file_obj.read(n), line 193, of the io.BufferedReader that open(path, "rb",
\* buffering=file_buffering) returns (line 238), at position pos with buf
\* read ahead.  Bytes read ahead are returned first, whatever the file holds
\* now; what is still missing is read from the file, whole blocks of
\* file_buffering bytes directly and the last partial block by filling the
\* buffer with up to file_buffering bytes, the rest of which stays read ahead.
\* The result is shorter than n only at the end of the file.
FileRead(pos, buf, n) ==
    IF n <= Len(buf)
    THEN [data |-> SubSeq(buf, 1, n), ahead |-> SubSeq(buf, n + 1, Len(buf))]
    ELSE LET raw    == pos + Len(buf)
             rem    == n - Len(buf)
             whole  == file_buffering * (rem \div file_buffering)
             direct == RawRead(raw, whole)
         IN IF Len(direct) < whole
            THEN [data |-> buf \o direct, ahead |-> <<>>]
            ELSE LET rest == rem - whole
                     fill == IF rest > 0
                             THEN RawRead(raw + whole, file_buffering)
                             ELSE <<>>
                     take == Min(rest, Len(fill))
                 IN [data  |-> buf \o direct \o SubSeq(fill, 1, take),
                     ahead |-> SubSeq(fill, take + 1, Len(fill))]

\* transport.write(chunk): a selector transport with an empty buffer hands the
\* chunk to the socket at once, which takes acc bytes of it; otherwise the
\* whole chunk is appended to the buffer.
BufAfterWrite(buf, n, acc) == IF buf = 0 THEN n - acc ELSE buf + n

\* lines 175-178: maybe_drain awaits drain only above the high watermark
NeedsDrain_Never(buf) == FALSE
NeedsDrain(buf) == ~(buf <= write_buffer_high)

\* transport.write pauses the protocol when the buffer passes the high-water
\* mark, which line 137 sets to write_buffer_high; StreamWriter.drain()
\* suspends while the protocol is paused
PausesAt(buf) == buf > write_buffer_high

\* the transport resumes the protocol when the buffer has fallen to the
\* low-water mark (write_buffer_low, line 137)
ResumesAt(buf) == buf <= write_buffer_low

\* whether the await at a site of upload() is wrapped in asyncio.wait_for
AwaitTimeout(site) ==
    CASE site = "connect"      -> TRUE     \* lines 127-134
      [] site = "header"       -> FALSE    \* line 225: await conn.writer.drain()
      [] site = "offset_read"  -> TRUE     \* line 228
      [] site = "chunk_drain"  -> TRUE     \* line 161, from maybe_drain
      [] site = "final_drain"  -> TRUE     \* line 161, from line 200
      [] site = "status_read"  -> TRUE     \* line 249
      [] site = "close"        -> FALSE    \* line 106: await writer.wait_closed()
      [] OTHER                 -> FALSE

Ev(op, n) == [op |-> op, n |-> n]

\* lines 158-161: _drain_if_needed awaited drain() and it returned
drain_done(ev) == Append(ev, Ev("drain", 0))

\* --------------------------------------------------- connect / disconnect
\* ResumableUploader.connect(): on success self._conn is the new connection.
\* A connection still held in self._conn is not closed by connect(), only
\* replaced at line 138: it stays open, unless the interpreter finalises the
\* dropped StreamWriter at once and its __del__ closes the transport.
\* Every exception of open_connection is caught and gives False.
connect(ok) ==
    IF ok
    THEN /\ conn' = TRUE
         /\ \E finalised \in (IF conn THEN BOOLEAN ELSE {FALSE}) :
                openCount' = IF finalised THEN openCount ELSE openCount + 1
         /\ connHdrs' = 0
         /\ wbuf' = 0
         /\ paused' = FALSE
         /\ events' = <<>>
    ELSE UNCHANGED <<conn, openCount, connHdrs, wbuf, paused, events>>

\* the exceptions that mean the transport is already gone, its buffer dropped
ConnectionLost(exc) == exc \in {"ConnectionResetError", "BrokenPipeError"}

\* disconnect() up to its await, lines 153-154 and 105: writer.close() on the
\* current connection, after exception exc ("" for none); self._conn stays
\* set while wait_closed() is awaited.  close() leaves the buffer to be
\* flushed and does not resume a paused protocol: that happens only when the
\* buffer has fallen to the low-water mark
close_begin(exc) ==
    /\ conn' = conn
    /\ openCount' = openCount - 1
    /\ connHdrs' = connHdrs
    /\ wbuf' = IF ConnectionLost(exc) THEN 0 ELSE wbuf
    /\ paused' = (paused /\ ~ResumesAt(wbuf'))

\* line 106, `await self.writer.wait_closed()`, no timeout: it returns when
\* the closing transport has written out its buffer, or has lost the
\* connection (which drops the buffer)
CloseDone(buf) == buf = 0

\* line 155, after close() has returned: self._conn = None
disconnect_Noop == UNCHANGED <<conn, openCount, connHdrs, wbuf, paused, events>>
disconnect ==
    /\ conn' = FALSE
    /\ connHdrs' = 0
    /\ wbuf' = 0
    /\ paused' = FALSE
    /\ events' = <<>>
    /\ UNCHANGED openCount

\* lines 266-269, with the attempt counter at att: return False when the
\* budget is used up, else sleep
RetryOrGiveUp(att) ==
    IF BudgetExhausted(att)
    THEN /\ pc' = "done"
         /\ result' = "False"
         /\ retAt' = "exhausted"
         /\ UNCHANGED nSleeps
    ELSE /\ pc' = "sleep"
         /\ nSleeps' = nSleeps + 1
         /\ UNCHANGED <<result, retAt>>

\* The except clause of upload() up to its await, lines 262-265, for exception
\* exc raised at site, the log of the connection being ev: count the attempt
\* and start closing the connection.  An exception the clause does not name
\* leaves upload().
Fault(site, exc, ev) ==
    /\ lastFault' = [site |-> site, exc |-> exc]
    /\ IF Caught(exc)
       THEN /\ attempt' = attempt + 1
            /\ nFaults' = nFaults + 1
            /\ events' = ev
            /\ IF conn
               THEN /\ close_begin(exc)
                    /\ pc' = "closing"
                    /\ UNCHANGED <<result, retAt, nSleeps>>
               ELSE /\ UNCHANGED <<conn, openCount, connHdrs, wbuf, paused>>
                    /\ RetryOrGiveUp(attempt + 1)
       ELSE /\ pc' = "raised"
            /\ UNCHANGED <<attempt, nFaults, conn, openCount, connHdrs, wbuf,
                           paused, result, retAt, nSleeps, events>>

\* what only the except clause changes once a call runs
NoFaultVars == <<attempt, nFaults, lastFault, result, retAt, nSleeps>>

\* upload() has been called and has not returned or raised
Running ==
    pc \in {"getsize", "stat", "loop", "header", "hdrdrain", "offset", "transfer",
            "chunkdrain", "finaldrain", "status", "closing", "sleep"}

\* --------------------------------------------------- ImageClient operations
\* ImageClient.__aenter__, lines 301-304: connect(), result ignored
AEnter ==
    /\ pc = "idle"
    /\ openCount < MaxOpen
    /\ \E ok \in BOOLEAN : connect(ok)
    /\ UNCHANGED <<cfgVars, fileVars, histVars, passVars, NoFaultVars, hdrVars,
                   pc, file_size>>
    /\ UNCHANGED cleanVars

\* ImageClient.disconnect / __aexit__, lines 297-309, up to the await of line
\* 106 (without a connection disconnect() does nothing at all)
Disconnect ==
    /\ pc = "idle"
    /\ conn
    /\ close_begin("")
    /\ pc' = "disconnecting"
    /\ UNCHANGED <<cfgVars, fileVars, histVars, passVars, NoFaultVars, hdrVars,
                   file_size, events>>
    /\ UNCHANGED cleanVars

\* wait_closed() has returned in ImageClient.disconnect: line 155, return
DisconnectReturn ==
    /\ pc = "disconnecting"
    /\ CloseDone(wbuf)
    /\ disconnect
    /\ pc' = "idle"
    /\ UNCHANGED <<cfgVars, fileVars, histVars, passVars, NoFaultVars, hdrVars,
                   file_size>>
    /\ UNCHANGED cleanVars

\* --------------------------------------------------- upload()
\* line 204: os.path.exists(path); a missing file returns False
UploadStart ==
    /\ pc = "idle"
    /\ connHdrs < MaxCalls
    /\ startConn' = conn
    /\ offsetFaults' = 0
    /\ attempt' = 0
    /\ nFaults' = 0
    /\ offset' = -1
    /\ remaining' = 0
    /\ sent_total' = 0
    /\ fpos' = 0
    /\ fbuf' = <<>>
    /\ wire' = <<>>
    /\ response' = ""
    /\ nConnects' = 0
    /\ nHeaders' = 0
    /\ nSleeps' = 0
    /\ totalSent' = 0
    /\ lastFault' = NoFault
    /\ upload_id' = NoId
    /\ hdrLog' = {}
    /\ file_size' = 0
    /\ IF fileMode = "missing"
       THEN /\ pc' = "done"
            /\ result' = "False"
            /\ retAt' = "not_found"
       ELSE /\ pc' = "getsize"
            /\ result' = "none"
            /\ retAt' = ""
    /\ UNCHANGED <<cfgVars, fileVars, connVars, events>>
    /\ UNCHANGED cleanVars

\* line 209: file_size = os.path.getsize(path).  The line is outside the try
\* of line 214: the FileNotFoundError of a file removed since line 204 leaves
\* upload()
GetSize ==
    /\ pc = "getsize"
    /\ IF fileMode = "missing"
       THEN /\ pc' = "raised"
            /\ lastFault' = [site |-> "getsize", exc |-> "FileNotFoundError"]
            /\ UNCHANGED file_size
       ELSE /\ pc' = "stat"
            /\ file_size' = Len(fileData)
            /\ UNCHANGED lastFault
    /\ UNCHANGED <<cfgVars, fileVars, connVars, histVars, passVars, hdrVars,
                   attempt, nFaults, result, retAt, nSleeps, events>>
    /\ UNCHANGED cleanVars

\* lines 210-212 and 119: compute_upload_id stats the file again, as it is now
Stat ==
    /\ pc = "stat"
    /\ IF fileMode = "missing"
       THEN /\ pc' = "raised"
            /\ lastFault' = [site |-> "stat", exc |-> "FileNotFoundError"]
            /\ UNCHANGED upload_id
       ELSE /\ pc' = "loop"
            /\ upload_id' = compute_upload_id(client_name, filename, file_size,
                                              fileMtime)
            /\ UNCHANGED lastFault
    /\ UNCHANGED <<cfgVars, fileVars, connVars, histVars, passVars, hdrLog,
                   file_size, attempt, nFaults, result, retAt, nSleeps, events>>
    /\ UNCHANGED cleanVars

\* lines 215-217: no connection, so connect(); a failed connect returns False
Connect ==
    /\ pc = "loop"
    /\ ~conn
    /\ nConnects' = nConnects + 1
    /\ \E ok \in BOOLEAN :
        /\ connect(ok)
        /\ IF ok
           THEN /\ pc' = "header"
                /\ UNCHANGED <<result, retAt>>
           ELSE /\ pc' = "done"
                /\ result' = "False"
                /\ retAt' = "connect_failed"
    /\ UNCHANGED <<cfgVars, fileVars, passVars, hdrVars, file_size, attempt,
                   lastFault, nFaults, nHeaders, nSleeps, totalSent, startConn,
                   offsetFaults>>
    /\ UNCHANGED cleanVars

\* the sizes a packed header may have on the model's scale: a few dozen bytes
\* are nothing beside watermarks of megabytes and as much as HeaderLen beside
\* small ones
HeaderSizes == 0..HeaderLen

\* what the socket takes of a header of h bytes written to an empty buffer:
\* all of it while no file byte has been written on the connection (the send
\* buffer of the socket then holds headers at most, and has room for more),
\* otherwise any part
HeaderAccepted(h) ==
    IF \A i \in 1..Len(events) : events[i].op # "write" THEN {h} ELSE 0..h

\* lines 219-224: write the header on the current connection
SendHeader ==
    /\ pc = "header" \/ (pc = "loop" /\ conn)
    /\ nHeaders' = nHeaders + 1
    /\ hdrLog' = hdrLog \cup {HeaderToSend}
    /\ connHdrs' = connHdrs + 1
    /\ events' = Append(events, Ev("header", 0))
    /\ wire' = <<>>
    /\ offset' = -1
    /\ response' = ""
    /\ \E h \in HeaderSizes : \E acc \in HeaderAccepted(h) :
         /\ wbuf' = BufAfterWrite(wbuf, h, acc)
         /\ paused' = (paused \/ PausesAt(wbuf'))
    /\ pc' = "hdrdrain"
    /\ UNCHANGED <<cfgVars, fileVars, NoFaultVars, conn, openCount, file_size,
                   remaining, sent_total, fpos, fbuf, nConnects, totalSent,
                   startConn, offsetFaults, upload_id>>
    /\ UNCHANGED cleanVars

\* line 225, `await conn.writer.drain()`, no timeout: drain returns when the
\* protocol is not paused, and raises when the connection is lost; while the
\* protocol is paused the coroutine stays here
HeaderDrain ==
    /\ pc = "hdrdrain"
    /\ \/ /\ ~paused
          /\ pc' = "offset"
          /\ UNCHANGED <<NoFaultVars, connVars, events>>
       \/ /\ ~paused
          /\ \E exc \in {"ConnectionResetError", "BrokenPipeError"} :
                 Fault("header", exc, events)
       \/ /\ AwaitTimeout("header")
          /\ Fault("header", "TimeoutError", events)
    /\ UNCHANGED <<cfgVars, fileVars, histVars, passVars, hdrVars, file_size>>
    /\ UNCHANGED cleanVars

\* lines 227-246: read the offset; check it; open the file and seek
ReadOffset ==
    /\ pc = "offset"
    /\ \/ \E k \in 0..(MaxFileSize + 1) :
            /\ offset' = k
            /\ UNCHANGED offsetFaults
            /\ IF ~OffsetValid(k, file_size)
               THEN /\ Fault("offset_overflow", "ConnectionError",
                             Append(events, Ev("offset", k)))
                    /\ UNCHANGED <<remaining, sent_total, fpos>>
               ELSE /\ remaining' = file_size - k
                    /\ IF file_size - k > 0
                       THEN IF fileMode = "ok"
                            THEN /\ fpos' = SeekPos(k)
                                 /\ sent_total' = 0
                                 /\ pc' = "transfer"
                                 /\ events' = Append(events, Ev("offset", k))
                                 /\ UNCHANGED <<NoFaultVars, connVars>>
                            ELSE /\ Fault("open",
                                        IF fileMode = "missing"
                                        THEN "FileNotFoundError"
                                        ELSE "PermissionError",
                                        Append(events, Ev("offset", k)))
                                 /\ UNCHANGED <<sent_total, fpos>>
                       ELSE /\ pc' = "status"
                            /\ events' = Append(events, Ev("offset", k))
                            /\ UNCHANGED <<NoFaultVars, connVars, sent_total, fpos>>
       \/ \E exc \in {"IncompleteReadError", "ConnectionResetError", "ConnectionError"} :
            \* EOF before 8 bytes, a reset, or the offset timeout (lines 229-230)
            /\ Fault("offset_read", exc, events)
            /\ offsetFaults' = offsetFaults + 1
            /\ UNCHANGED <<offset, remaining, sent_total, fpos>>
    /\ UNCHANGED <<cfgVars, fileVars, hdrVars, file_size, fbuf, wire, response,
                   nConnects, nHeaders, nSleeps, totalSent, startConn>>
    /\ UNCHANGED cleanVars

\* lines 192-197: read a chunk, write it, and test the buffer (line 176); then
\* either suspend in the drain of line 178 or go on with line 198
SendChunk ==
    /\ pc = "transfer"
    /\ LET rd    == FileRead(fpos, fbuf, ReadSize(remaining, sent_total))
           chunk == rd.data
           n     == Len(chunk)
       IN /\ fbuf' = rd.ahead
          /\ IF n = 0
             THEN \* if not chunk: break
                  /\ pc' = "finaldrain"
                  /\ UNCHANGED <<connVars, wire, totalSent, fpos, sent_total, events>>
             ELSE /\ wire' = wire \o chunk
                  /\ totalSent' = totalSent + n
                  /\ fpos' = fpos + n
                  /\ events' = Append(events, Ev("write", n))
                  /\ \E acc \in 0..n :
                       LET b == BufAfterWrite(wbuf, n, acc)
                       IN /\ wbuf' = b
                          /\ paused' = (paused \/ PausesAt(b))
                          /\ IF NeedsDrain(b)
                             THEN /\ pc' = "chunkdrain"
                                  /\ UNCHANGED sent_total
                             ELSE /\ sent_total' = sent_total + n
                                  /\ pc' = IF sent_total + n < remaining
                                           THEN "transfer" ELSE "finaldrain"
                  /\ UNCHANGED <<conn, openCount, connHdrs>>
    /\ UNCHANGED <<cfgVars, fileVars, hdrVars, NoFaultVars, file_size, offset,
                   remaining, response, nConnects, nHeaders, startConn,
                   offsetFaults>>
    /\ UNCHANGED cleanVars

\* lines 178 and 161, then 198: the drain awaited after a chunk, under
\* wait_for(drain_timeout); sent_total counts the chunk once drain has returned
ChunkDrain ==
    /\ pc = "chunkdrain"
    /\ \/ /\ ~paused
          /\ events' = drain_done(events)
          /\ sent_total' = Len(wire)
          /\ pc' = IF Len(wire) < remaining THEN "transfer" ELSE "finaldrain"
          /\ UNCHANGED <<NoFaultVars, connVars, fbuf>>
       \/ /\ ~paused
          /\ \E exc \in {"ConnectionResetError", "BrokenPipeError"} :
                 Fault("chunk_drain", exc, events)
          /\ fbuf' = <<>>
          /\ UNCHANGED sent_total
       \/ /\ AwaitTimeout("chunk_drain")
          /\ Fault("chunk_drain", "TimeoutError", events)
          /\ fbuf' = <<>>
          /\ UNCHANGED sent_total
    /\ UNCHANGED <<cfgVars, fileVars, histVars, hdrVars, file_size, offset,
                   remaining, fpos, wire, response>>
    /\ UNCHANGED cleanVars

\* lines 200-201 and 243-244: the final drain under wait_for(drain_timeout)
\* (drain returns when the protocol is not paused, and raises on a lost
\* connection; wait_for raises TimeoutError when drain_timeout runs out, and
\* without running drain at all when drain_timeout is not positive), return
\* sent_total, the file is closed, compare
FinalDrain ==
    /\ pc = "finaldrain"
    /\ fbuf' = <<>>
    /\ \/ /\ ~paused
          /\ IF SentOk(sent_total, remaining)
             THEN /\ pc' = "status"
                  /\ events' = drain_done(events)
                  /\ UNCHANGED <<NoFaultVars, connVars>>
             ELSE Fault("short_send", "ConnectionError", drain_done(events))
       \/ /\ ~paused
          /\ \E exc \in {"ConnectionResetError", "BrokenPipeError"} :
                 Fault("final_drain", exc, events)
       \/ /\ AwaitTimeout("final_drain")
          /\ Fault("final_drain", "TimeoutError", events)
    /\ UNCHANGED <<cfgVars, fileVars, histVars, hdrVars, file_size, offset,
                   remaining, sent_total, fpos, wire, response>>
    /\ UNCHANGED cleanVars

StatusBytes == {"OK", "ER", "XX"}

\* lines 248-260: read the 2 status bytes and return the verdict
ReadStatus ==
    /\ pc = "status"
    /\ \/ \E r \in StatusBytes :
            /\ response' = r
            /\ events' = Append(events, Ev("status", 0))
            /\ result' = StatusResult(r)
            /\ retAt' = r
            /\ pc' = "done"
            /\ UNCHANGED <<attempt, nFaults, lastFault, nSleeps, connVars>>
       \/ \E exc \in {"IncompleteReadError", "ConnectionResetError", "ConnectionError"} :
            \* EOF before 2 bytes, a reset, or the response timeout (lines 250-251)
            /\ Fault("status_read", exc, events)
            /\ UNCHANGED response
    /\ UNCHANGED <<cfgVars, fileVars, histVars, hdrVars, file_size, offset,
                   remaining, sent_total, fpos, fbuf, wire>>
    /\ UNCHANGED cleanVars

\* lines 265-269: wait_closed() has returned inside the disconnect() of the
\* except clause: self._conn = None, then the budget test
CloseReturn ==
    /\ pc = "closing"
    /\ CloseDone(wbuf)
    /\ disconnect
    /\ RetryOrGiveUp(attempt)
    /\ UNCHANGED <<cfgVars, fileVars, passVars, hdrVars, file_size, attempt,
                   nFaults, lastFault, nConnects, nHeaders, totalSent, startConn,
                   offsetFaults>>
    /\ UNCHANGED cleanVars

\* line 269: the sleep ends and the except block is left (Python unbinds e),
\* back to the top of the loop
Wake ==
    /\ pc = "sleep"
    /\ attempt < MaxAttempts
    /\ pc' = "loop"
    /\ lastFault' = NoFault
    /\ UNCHANGED <<cfgVars, fileVars, connVars, histVars, passVars, hdrVars,
                   file_size, attempt, result, retAt, nFaults, events>>
    /\ UNCHANGED cleanVars

\* upload() has returned or raised: its frame is gone, the caller holds the
\* result (or the exception) and may use the session again
UploadReturn ==
    /\ pc \in {"done", "raised"}
    /\ pc' = "idle"
    /\ file_size' = 0
    /\ attempt' = 0
    /\ nFaults' = 0
    /\ lastFault' = NoFault
    /\ offset' = -1
    /\ remaining' = 0
    /\ sent_total' = 0
    /\ fpos' = 0
    /\ wire' = <<>>
    /\ response' = ""
    /\ retAt' = ""
    /\ nConnects' = 0
    /\ nHeaders' = 0
    /\ nSleeps' = 0
    /\ totalSent' = 0
    /\ startConn' = FALSE
    /\ offsetFaults' = 0
    /\ hdrLog' = {}
    /\ upload_id' = NoId
    /\ UNCHANGED <<cfgVars, fileVars, connVars, fbuf, result, events>>
    /\ UNCHANGED cleanVars

\* --------------------------------------------------- environment
\* The source file is truncated, at any moment.  upload() looks at the file's
\* size in line 209, at its mtime in line 119 and at its bytes in the reads of
\* _send_file_region.
FileShrink ==
    /\ \E n \in 0..(Len(fileData) - 1) : fileData' = SubSeq(fileData, 1, n)
    /\ fileMtime' = st_mtime_ns(fileData')
    /\ UNCHANGED <<cfgVars, fileMode, connVars, histVars, passVars, NoFaultVars,
                   hdrVars, pc, file_size, events>>
    /\ UNCHANGED cleanVars

\* The source file is removed, or loses its read permission, at any moment.
\* upload() meets this in lines 204, 209 and 119 and in open() (line 238); a
\* file that is open stays readable.
FileRemove ==
    /\ fileMode = "ok"
    /\ fileMode' \in {"missing", "unreadable"}
    /\ UNCHANGED <<cfgVars, fileData, fileMtime, connVars, histVars, passVars,
                   NoFaultVars, hdrVars, pc, file_size, events>>
    /\ UNCHANGED cleanVars

\* where the session's task is suspended, so that the event loop runs
Suspended ==
    pc \in {"idle", "hdrdrain", "offset", "chunkdrain", "finaldrain", "status",
            "closing", "disconnecting"}

\* The event loop writes buffered bytes to the socket while the task is
\* suspended, or the connection is lost and the buffer dropped; the transport
\* resumes a paused protocol at the low-water mark.
TransportFlush ==
    /\ conn
    /\ Suspended
    /\ wbuf > 0
    /\ \E b \in 0..(wbuf - 1) :
         /\ wbuf' = b
         /\ paused' = (paused /\ ~ResumesAt(b))
    /\ UNCHANGED <<cfgVars, fileVars, histVars, passVars, NoFaultVars, hdrVars,
                   conn, openCount, connHdrs, pc, file_size, events>>
    /\ UNCHANGED cleanVars

Next ==
    \/ AEnter
    \/ Disconnect
    \/ DisconnectReturn
    \/ UploadStart
    \/ GetSize
    \/ Stat
    \/ Connect
    \/ SendHeader
    \/ HeaderDrain
    \/ ReadOffset
    \/ SendChunk
    \/ ChunkDrain
    \/ FinalDrain
    \/ ReadStatus
    \/ CloseReturn
    \/ Wake
    \/ UploadReturn
    \/ FileShrink
    \/ FileRemove
    \/ TransportFlush

Spec == Init /\ [][Next]_vars

\* the steps of a running upload(): the coroutine is resumed when the await it
\* is suspended in completes, raises or times out
UploadStep ==
    \/ GetSize
    \/ Stat
    \/ Connect
    \/ SendHeader
    \/ HeaderDrain
    \/ ReadOffset
    \/ SendChunk
    \/ ChunkDrain
    \/ FinalDrain
    \/ ReadStatus
    \/ CloseReturn
    \/ Wake

FairSpec == Init /\ [][Next]_vars /\ WF_vars(UploadStep)

\* =================================================== cleaner.py
\* the subdirectories of d that exist
Children(d, dirs) == {c \in dirs : c # root /\ cParent[c] = d}

\* line 33: not any(p.iterdir()): no file and no subdirectory in p now
IsEmpty(d, dirs) == d \notin cFiles /\ Children(d, dirs) = {}

RECURSIVE WalkList(_, _)
RECURSIVE walk(_, _)
\* os.walk(top, topdown=False), onerror=None: a directory whose scandir fails
\* is skipped without a word, it and all below it; otherwise the subtrees of
\* top's subdirectories come first and top itself last.  The generator lists
\* a directory before it yields anything below it, and the loop body removes
\* only the directory just yielded, whose subtree is done: what it yields is
\* fixed by the tree at the call.
walk(d, dirs) ==
    IF d \in cNoList THEN <<>>
    ELSE WalkList(Children(d, dirs), dirs) \o <<d>>

\* the subdirectories in the order scandir lists them, which is the order the
\* directories of the model are numbered in
WalkList(S, dirs) ==
    IF S = {} THEN <<>>
    ELSE LET c == CHOOSE x \in S : \A y \in S : x <= y
         IN walk(c, dirs) \o WalkList(S \ {c}, dirs)

\* lines 34-35: the root is skipped unless remove_root
KeepRoot(p, rr) == p = root /\ ~rr

\* lines 36-39: a dry run only prints, a real run calls p.rmdir()
rmdir_or_print(dirs, p, dry) == IF dry THEN dirs ELSE dirs \ {p}

\* the trees the cleaner may be started on: directories 1..n below the root,
\* each inside an earlier one, any of them holding a file, up to MaxNoList of
\* them without the permission to list them
CleanInit ==
    /\ UploadInit
    /\ max_retries = 0
    /\ file_buffering = chunk_size
    /\ fileData = <<>>
    /\ fileMode = "missing"
    /\ \E n \in 0..MaxDirs :
          /\ cParent \in [1..n -> 0..(n - 1)]
          /\ \A i \in 1..n : cParent[i] < i
          /\ cDirs = 0..n
          /\ cFiles \in SUBSET (0..n)
          /\ cNoList \in {S \in SUBSET (0..n) : Cardinality(S) <= MaxNoList}
    /\ dry_run = TRUE
    /\ remove_root = FALSE
    /\ cQueue = <<>>
    /\ removed = 0
    /\ errors = 0
    /\ errSites = {}
    /\ cpc = "idle"
    /\ cStart = {}
    /\ dryLast = NoDryRun
    /\ nCleanCalls = 0

\* lines 18-27: the call begins; a missing root raises FileNotFoundError
CleanStart ==
    /\ cpc \in {"idle", "returned", "raised"}
    /\ nCleanCalls < MaxCleanCalls
    /\ nCleanCalls' = nCleanCalls + 1
    /\ \E dry \in BOOLEAN, rr \in BOOLEAN :
          /\ dry_run' = dry
          /\ remove_root' = rr
    /\ removed' = 0
    /\ errors' = 0
    /\ errSites' = {}
    /\ cStart' = cDirs
    /\ IF root \in cDirs
       THEN /\ cpc' = "walk"
            /\ cQueue' = walk(root, cDirs)
       ELSE /\ cpc' = "raised"
            /\ cQueue' = <<>>
    /\ UNCHANGED <<cParent, cFiles, cDirs, cNoList, dryLast>>
    /\ UNCHANGED uploadVars

\* lines 42-44, for an exception raised by the call at site: count it and
\* print it to stderr; an exception of that print leaves remove_empty_dirs
CleanFault(site) ==
    /\ errors' = errors + 1
    /\ UNCHANGED removed
    /\ \E printed \in BOOLEAN :
         IF printed
         THEN /\ errSites' = errSites \cup {site}
              /\ cQueue' = Tail(cQueue)
              /\ UNCHANGED cpc
         ELSE /\ errSites' = errSites \cup {site, "stderr"}
              /\ cQueue' = <<>>
              /\ cpc' = "raised"

\* lines 27-44: one iteration of the loop over os.walk
CleanStep ==
    /\ cpc = "walk"
    /\ cQueue # <<>>
    /\ LET p == Head(cQueue)
       IN \/ \* line 33: p.iterdir() raised (p was changed since it was listed)
             /\ CleanFault("iterdir")
             /\ UNCHANGED cDirs
          \/ IF IsEmpty(p, cDirs) /\ ~KeepRoot(p, remove_root)
             THEN \/ \* lines 37 / 39-40, and 41
                     /\ cDirs' = rmdir_or_print(cDirs, p, dry_run)
                     /\ removed' = removed + 1
                     /\ cQueue' = Tail(cQueue)
                     /\ UNCHANGED <<errors, errSites, cpc>>
                  \/ \* line 39: p.rmdir() raised (no permission)
                     /\ ~dry_run
                     /\ CleanFault("rmdir")
                     /\ UNCHANGED cDirs
                  \/ \* line 37 / 40: print raised (stdout is a closed pipe,
                     \* or cannot encode the path); line 41 is not reached
                     /\ cDirs' = rmdir_or_print(cDirs, p, dry_run)
                     /\ CleanFault("print")
             ELSE /\ cQueue' = Tail(cQueue)
                  /\ UNCHANGED <<cDirs, removed, errors, errSites, cpc>>
    /\ UNCHANGED <<cParent, cFiles, cNoList, dry_run, remove_root, cStart,
                   dryLast, nCleanCalls>>
    /\ UNCHANGED uploadVars

\* line 46: return removed, errors
CleanReturn ==
    /\ cpc = "walk"
    /\ cQueue = <<>>
    /\ cpc' = "returned"
    /\ dryLast' = IF dry_run
                  THEN [count |-> removed, errors |-> errors, tree |-> cDirs,
                        remove_root |-> remove_root]
                  ELSE dryLast
    /\ UNCHANGED <<cParent, cFiles, cDirs, cNoList, dry_run, remove_root, cQueue,
                   removed, errors, errSites, cStart, nCleanCalls>>
    /\ UNCHANGED uploadVars

CleanNext ==
    \/ CleanStart
    \/ CleanStep
    \/ CleanReturn

CleanSpec == CleanInit /\ [][CleanNext]_vars

\* =================================================== claims
\* bytes [k, size) of the source file as upload() found it
SourceBytes(k, size) == [i \in 1..(size - k) |-> k + i]

\* upload() is inside its retry loop, or has returned
InLoop ==
    pc \in {"loop", "header", "hdrdrain", "offset", "transfer", "chunkdrain",
            "finaldrain", "status", "closing", "sleep", "done"}

\* the except clause has counted the fault raised at site and is closing the
\* connection
ClosingAfter(site) == pc = "closing" /\ lastFault.site = site

\* the close has returned: no connection, and the call sleeps before its next
\* attempt or has given up for want of budget
Reconnecting == ~conn /\ (pc = "sleep" \/ (pc = "done" /\ retAt = "exhausted"))

\* the part of a connection's log that begins at its last header
Exchange(ev) ==
    LET H == {i \in 1..Len(ev) : ev[i].op = "header"}
    IN IF H = {} THEN ev
       ELSE SubSeq(ev, CHOOSE i \in H : \A j \in H : j <= i, Len(ev))

\* the sizes of the chunks written in ev, in order
WriteSizes(ev) ==
    LET w == SelectSeq(ev, LAMBDA e : e.op = "write")
    IN [i \in 1..Len(w) |-> w[i].n]

\* ------------------------------------------------------------------ C1
\* C1: upload() returns True only if on the current connection the header was
\* sent, an offset k <= file_size was received, exactly file_size - k file
\* bytes were written (sent == remaining) and the status read was "OK".
C1_SuccessOnlyAfterFullExchange ==
    (pc = "done" /\ result = "True") =>
        /\ conn
        /\ connHdrs >= 1
        /\ nHeaders >= 1
        /\ offset >= 0
        /\ offset <= file_size
        /\ remaining = file_size - offset
        /\ Len(wire) = file_size - offset
        /\ (remaining > 0 => sent_total = remaining)
        /\ response = "OK"

C1_Witness ==
    /\ pc = "done"
    /\ result = "True"
    /\ nFaults >= 1
    /\ offset = 1
    /\ Len(wire) = 2

\* ------------------------------------------------------------------ C2
\* C2, as claimed: status bytes other than "OK" on the first attempt end the
\* call with failure, one header, no sleep, and exactly one connection attempt.
C2_ExactlyOneConnect ==
    (pc = "done" /\ response \in {"ER", "XX"} /\ attempt = 0) =>
        /\ result = "False"
        /\ nHeaders = 1
        /\ nSleeps = 0
        /\ nConnects = 1

\* C2: when the 2 status bytes are read in full and are not "OK", upload()
\* returns False at once: no disconnect, no reconnect, no sleep, no further
\* header, the attempt counter unchanged; and after "ER" on the first attempt
\* the call has sent exactly one header and has made exactly one connection
\* attempt, or none if the session was already connected when it began.
C2_RejectionIsTerminal ==
    /\ [][(pc = "status" /\ response' \in {"ER", "XX"}) =>
            /\ pc' = "done"
            /\ result' = "False"
            /\ conn' = conn
            /\ openCount' = openCount
            /\ attempt' = attempt
            /\ nSleeps' = nSleeps
            /\ nHeaders' = nHeaders
            /\ nConnects' = nConnects]_vars
    /\ [][(pc = "done") =>
            /\ pc' \in {"done", "idle"}
            /\ conn' = conn
            /\ openCount' = openCount
            /\ result' = result]_vars
    /\ []((pc = "done" /\ response \in {"ER", "XX"} /\ attempt = 0) =>
            /\ result = "False"
            /\ nHeaders = 1
            /\ nSleeps = 0
            /\ nConnects = (IF startConn THEN 0 ELSE 1))

C2_Witness ==
    /\ pc = "done"
    /\ response = "ER"
    /\ attempt = 0
    /\ startConn
    /\ nConnects = 0
    /\ result = "False"

\* ------------------------------------------------------------------ C3
\* C3: for every file_size and every offset k in 0..file_size, an attempt that
\* got through the transfer without fault has written, after the header,
\* exactly the bytes [k, file_size) of the source file, in order (none for
\* k = file_size).
C3_ResumeCorrectness ==
    (pc = "status" \/ (pc = "done" /\ response # "")) =>
        /\ offset \in 0..file_size
        /\ wire = SourceBytes(offset, file_size)

C3_Witness ==
    /\ pc = "status"
    /\ file_size = 3
    /\ offset = 1
    /\ wire = <<2, 3>>

\* ------------------------------------------------------------------ C4
\* the only fault of the call was raised by the read of the offset, and the
\* peer went through the next exchange to the status "OK"
OneResetThenOk ==
    pc = "done" /\ nFaults = 1 /\ offsetFaults = 1 /\ response = "OK"

\* C4, as claimed: after one connection lost before an offset arrived and a
\* good second exchange, upload() returns True after exactly 2 connection
\* attempts and 2 headers, having written file_size - k file bytes in all.
C4_ExactlyTwoConnects ==
    OneResetThenOk =>
        /\ result = "True"
        /\ nConnects = 2
        /\ nHeaders = 2
        /\ totalSent = file_size - offset

\* C4: if the only fault of the call is the peer dropping the connection after
\* the header, before an offset, and the next connection goes well, upload()
\* returns True after 2 headers on 2 connections, the second of them opened by
\* the call (as the first is, unless the session was already connected when
\* the call began), and the file bytes written over both connections are
\* exactly the file_size - k bytes from the offset k of the second connection;
\* the close of the reset connection returns, so the call does get to retry.
C4_RetryAfterReset ==
    /\ ((ClosingAfter("offset_read") /\ lastFault.exc = "ConnectionResetError")
           ~> Reconnecting)
    /\ [](OneResetThenOk =>
            /\ result = "True"
            /\ attempt = 1
            /\ nHeaders = 2
            /\ nConnects = (IF startConn THEN 1 ELSE 2)
            /\ totalSent = file_size - offset
            /\ wire = SourceBytes(offset, file_size))

C4_Witness ==
    /\ OneResetThenOk
    /\ result = "True"
    /\ startConn
    /\ nConnects = 1
    /\ totalSent = 2
    /\ offset = 1

\* ------------------------------------------------------------------ C5
\* C5: an offset above file_size sends no file byte on that connection, closes
\* it, counts one failed attempt and, budget permitting, sleeps; the retry
\* starts without a connection, so the next header goes out on a fresh one.  It
\* is never a success and never a failure for that reason alone.
C5_OffsetOverflowRetries ==
    /\ [][(pc = "offset" /\ offset' > file_size) =>
            /\ wire' = <<>>
            /\ totalSent' = totalSent
            /\ openCount' = openCount - 1
            /\ attempt' = attempt + 1
            /\ result' = "none"]_vars
    /\ [](pc = "sleep" => ~conn)
    /\ []((pc = "loop" /\ attempt > 0) => ~conn)
    /\ [](pc = "header" => (conn /\ connHdrs = 0))
    /\ (ClosingAfter("offset_overflow") ~> Reconnecting)

\* ------------------------------------------------------------------ C6
\* C6: when _send_file_region has sent fewer bytes than remaining, the status
\* is not read on that connection: the connection is closed, one attempt is
\* counted and the call retries within its budget, never succeeding there.
C6_ShortSendRetries ==
    /\ [][(pc = "finaldrain" /\ sent_total < remaining /\ pc' # pc) =>
            /\ response' = ""
            /\ openCount' = openCount - 1
            /\ attempt' = attempt + 1
            /\ result' = "none"]_vars
    /\ []((pc = "status" /\ remaining > 0) => sent_total = remaining)
    /\ (ClosingAfter("short_send") ~> Reconnecting)

\* ------------------------------------------------------------------ C7
\* C7: the peer closing the connection before 2 status bytes arrived is a
\* fault of the reconnect path (disconnect, count the attempt, check the
\* budget, sleep), not an outcome of upload().
C7_ShortStatusReadRetries ==
    /\ [][(pc = "status" /\ lastFault'.site = "status_read"
                         /\ lastFault'.exc = "IncompleteReadError") =>
            /\ response' = ""
            /\ openCount' = openCount - 1
            /\ attempt' = attempt + 1
            /\ result' = "none"]_vars
    /\ ((ClosingAfter("status_read") /\ lastFault.exc = "IncompleteReadError")
           ~> Reconnecting)

\* ------------------------------------------------------------------ C8
\* C8: a failed connect is a retryable fault: upload() does not return False
\* for it unless it is the fault that uses up the retry budget.
C8_ConnectFailureIsRetried ==
    (pc = "done" /\ retAt = "connect_failed") =>
        (max_retries # 0 /\ attempt + 1 >= max_retries)

\* ------------------------------------------------------------------ C9
\* C9: with max_retries = N > 0, upload() returns "attempts exhausted" exactly
\* at the N-th fault of the call, so a call makes at most N connects, sends at
\* most N headers and sleeps at most N - 1 times; with max_retries = 0 it never
\* returns for having faulted too often.
C9_RetryBudget ==
    /\ [](max_retries > 0 =>
            /\ nFaults <= max_retries
            /\ attempt = nFaults
            /\ nConnects <= max_retries
            /\ nHeaders <= max_retries
            /\ nSleeps <= max_retries - 1
            /\ (retAt = "exhausted" => nFaults = max_retries))
    /\ [](max_retries = 0 => retAt # "exhausted")
    /\ [](retAt = "exhausted" => (pc = "done" /\ result = "False"))
    /\ ((max_retries > 0 /\ Running /\ nFaults = max_retries)
           ~> (pc = "done" /\ retAt = "exhausted"))

\* ------------------------------------------------------------------ C10
\* C10: a source file that cannot be opened is fatal and never retried:
\* upload() returns False for it without a sleep or a reconnect.
C10_UnreadableFileIsFatal ==
    (lastFault.site = "open") => (pc = "done" /\ result = "False")

\* ------------------------------------------------------------------ C11
\* C11: over any sequence of __aenter__, send_image/upload, disconnect and
\* __aexit__, at most one header is ever written to a connection.
C11_OneHeaderPerConnection == connHdrs <= 1

\* ------------------------------------------------------------------ C12
\* C12: over any sequence of the public operations, at most one connection
\* opened by the session is open: connect() never runs while a connection of
\* the session is still open.
C12_AtMostOneOpenConnection == openCount <= 1

\* ------------------------------------------------------------------ C13
\* C13: within one upload() call every header carries the same file_size and
\* the same upload_id, those computed before the loop, whatever happens to the
\* file's size and modification time between the attempts.
C13_HeaderFixedPerCall ==
    /\ [](\A h \in hdrLog :
            h = build_header(client_name, filename, file_size, upload_id))
    /\ [][(InLoop /\ pc' # "idle") =>
            (file_size' = file_size /\ upload_id' = upload_id)]_vars

\* two headers of a call whose file shrank before the id was computed and
\* again since
C13_Witness ==
    /\ nHeaders = 2
    /\ pc = "offset"
    /\ upload_id.mtime_ns # st_mtime_ns(FileOfSize(file_size))
    /\ fileMtime # upload_id.mtime_ns
    /\ Len(fileData) < file_size
    /\ Cardinality(hdrLog) = 1

\* ------------------------------------------------------------------ C14
\* the drain after the header (line 225) is the one drain without a timeout:
\* it neither completes nor times out while the protocol stays paused
HeaderDrainWaits == pc = "hdrdrain" /\ paused

\* C14: with a retry budget (max_retries > 0) a running upload() eventually
\* returns (or raises), whatever the peer does, provided none of its connects,
\* drains and reads waits forever.
C14_UploadTerminates ==
    ([]<>(~HeaderDrainWaits)) =>
        ((max_retries > 0 /\ Running) ~> (pc = "done" \/ pc = "raised"))

\* ------------------------------------------------------------------ C15
Ceil(a, b) == (a + b - 1) \div b

\* ceil(rem / chunk_size) chunks: all of chunk_size but a shorter last one
ExpectedChunks(rem) ==
    [i \in 1..Ceil(rem, chunk_size) |-> Min(chunk_size, rem - (i - 1) * chunk_size)]

Ordered(ev) ==
    \A i \in 1..Len(ev) :
        CASE ev[i].op = "header" -> i = 1
          [] ev[i].op = "offset" -> i = 2 /\ ev[1].op = "header"
          [] ev[i].op = "write"  -> i >= 3 /\ ev[2].op = "offset"
                                     /\ ev[i-1].op \in {"offset", "write", "drain"}
          [] ev[i].op = "drain"  -> i >= 3 /\ ev[i-1].op \in {"offset", "write", "drain"}
          [] ev[i].op = "status" -> i = Len(ev) /\ ev[2].op = "offset"
                                     /\ (ev[i-1].op = "drain" \/ WriteSizes(ev) = <<>>)
          [] OTHER -> FALSE

\* C16: on every connection the header is written first, the offset is read
\* next, the payload writes follow, and the status is read only after a
\* drain that comes after the last write.
C16_OrderedExchange ==
    /\ Ordered(events)
    /\ (pc = "status" /\ WriteSizes(Exchange(events)) # <<>>)
          => events[Len(events)].op = "drain"

\* ------------------------------------------------------------------ C17
\* a chunk was written in this step
ChunkWritten == pc = "transfer" /\ totalSent' > totalSent

\* C17: a chunk write puts at most chunk_size bytes into the buffer; drain is
\* awaited after it exactly when the buffer is then above write_buffer_high,
\* and a drain that completes leaves the buffer at or below write_buffer_low;
\* so the buffer holds at most write_buffer_high bytes before every chunk
\* write and never more than write_buffer_high + chunk_size during a transfer.
C17_Backpressure ==
    /\ [](pc = "transfer" => wbuf <= write_buffer_high)
    /\ [](pc \in {"transfer", "chunkdrain", "finaldrain"}
            => wbuf <= write_buffer_high + chunk_size)
    /\ [][ChunkWritten =>
            /\ totalSent' - totalSent <= chunk_size
            /\ wbuf' <= wbuf + (totalSent' - totalSent)
            /\ (pc' = "chunkdrain") = (wbuf' > write_buffer_high)]_vars
    /\ [][(pc = "chunkdrain" /\ pc' \in {"transfer", "finaldrain"})
            => wbuf' <= write_buffer_low]_vars

\* a drain awaited with the buffer at write_buffer_high + chunk_size has
\* returned, the next chunk not yet written
C17_Witness ==
    /\ pc = "transfer" /\ sent_total = 2 /\ remaining = 3
    /\ events[Len(events)].op = "drain"
    /\ wbuf <= write_buffer_low
    /\ connHdrs = 2

\* ------------------------------------------------------------------ C18
\* upload() is suspended in an await without a timeout that only the peer can
\* end, by reading what is buffered: the drain after the header (line 225) or
\* the wait_closed of disconnect (line 106)
UploadHung ==
    /\ pc \in {"hdrdrain", "closing"}
    /\ ~ENABLED (HeaderDrain \/ CloseReturn)

\* C18: no await of upload() is left to the peer alone: each one is bounded by
\* a timeout whose expiry is a fault of the reconnect path.
C18_EveryWaitIsBounded == ~UploadHung

\* ------------------------------------------------------------------ C19
\* C19: a real run that keeps the root, on a tree nobody else changes and
\* with no rmdir error, leaves no empty directory below the root (those
\* emptied by the run included), leaves the root and every file in place, and
\* returns the number of directories it deleted.
C19_RealRunRemovesAllEmpty ==
    (/\ cpc = "returned" /\ ~dry_run /\ ~remove_root
     /\ errSites \cap {"rmdir", "iterdir"} = {}) =>
        /\ \A d \in cDirs \ {root} : ~IsEmpty(d, cDirs)
        /\ root \in cDirs
        /\ cFiles \subseteq cDirs
        /\ cDirs \subseteq cStart
        /\ removed = Cardinality(cStart \ cDirs)

\* ------------------------------------------------------------------ C20
\* C20: a dry run leaves the tree as it found it and returns the count that a
\* real run with the same remove_root returns on that tree.
C20_DryRunMatchesRealRun ==
    /\ (cpc \in {"walk", "returned"} /\ dry_run) => cDirs = cStart
    /\ (/\ cpc = "returned" /\ ~dry_run /\ errors = 0
        /\ dryLast.count >= 0 /\ dryLast.errors = 0
        /\ dryLast.tree = cStart /\ dryLast.remove_root = remove_root)
          => removed = dryLast.count

====
